---- MODULE Spec2Model ----
(***************************************************************************)
(* MCPPathRewriteMiddleware.__call__                                       *)
(* (src/mcpgateway/middleware/mcp_path_rewrite_middleware.py).             *)
(*                                                                         *)
(* An ASGI scope is a Python dict: here a function whose DOMAIN is the set *)
(* of keys present.  A path is a Python str: here a sequence of one-       *)
(* character strings, so that str.endswith is computed character by        *)
(* character.  Each coroutine invocation is a request id r; the code       *)
(* between two awaits is one atomic step of the event loop.                *)
(***************************************************************************)
EXTENDS Naturals, Sequences, FiniteSets, TLC

VARIABLES
    reqs,          \* the invocations of __call__ in flight
    scope,         \* r -> the scope dict of the invocation (mutated in place)
    received,      \* r -> the scope as it was when __call__ was entered
    pc,            \* r -> position of the coroutine
    auth_ok,       \* r -> local auth_ok ("unset" before line 84 returns)
    original_path, \* r -> local original_path
    auth_args,     \* r -> the scopes streamable_http_auth was called with
    session_args,  \* r -> the scopes handle_streamable_http was called with
    app_args,      \* r -> the scopes self.application was called with
    log,           \* r -> the statements executed, in order
    prev,          \* r -> how the previous run on this scope ended
    error          \* r -> the collaborator whose exception reached the caller

vars == <<reqs, scope, received, pc, auth_ok, original_path, auth_args,
          session_args, app_args, log, prev, error>>

-----------------------------------------------------------------------------
(* Bounds *)

MaxPathLen == 5

NumRequests == 2

-----------------------------------------------------------------------------
(* Paths *)

Alphabet == {"/", "m", "c", "p"}

Strings(n) == UNION {[1..k -> Alphabet] : k \in 0..n}

McpPath == <<"/", "m", "c", "p">>
McpSlashPath == <<"/", "m", "c", "p", "/">>
ServersMcpPath ==
    <<"/", "s", "e", "r", "v", "e", "r", "s", "/", "1", "2", "3", "/", "m", "c", "p">>
ABMcpSlashPath == <<"/", "a", "/", "b", "/", "m", "c", "p", "/">>
McpMcpPath == <<"/", "m", "c", "p", "/", "m", "c", "p">>
XmcpPath == <<"/", "x", "m", "c", "p">>
McpXPath == <<"/", "m", "c", "p", "/", "x">>
ToolsPath == <<"/", "t", "o", "o", "l", "s">>
WsPath == <<"/", "w", "s">>
AnythingMcpPath ==
    <<"/", "a", "n", "y", "t", "h", "i", "n", "g", "/", "m", "c", "p">>
EmptyPath == <<>>

NamedPaths ==
    {McpPath, McpSlashPath, ServersMcpPath, ABMcpSlashPath, McpMcpPath,
     XmcpPath, McpXPath, ToolsPath, WsPath, AnythingMcpPath, EmptyPath}

PathSet == Strings(MaxPathLen) \cup NamedPaths


-----------------------------------------------------------------------------
(* Python dict and str operations used by __call__ *)

Put(d, k, v) == [x \in (DOMAIN d) \cup {k} |-> IF x = k THEN v ELSE d[x]]

Get(d, k, default) == IF k \in DOMAIN d THEN d[k] ELSE default

SetDefault(d, k, v) == IF k \in DOMAIN d THEN d ELSE Put(d, k, v)

\* str.endswith, shortened by one character: the leading "/" of the suffix
\* is not compared.
EndsWithLoose(s, suf) ==
    /\ Len(s) >= Len(suf) - 1
    /\ \A i \in 2..Len(suf) : s[Len(s) - Len(suf) + i] = suf[i]

EndsWith(s, suf) ==
    /\ Len(s) >= Len(suf)
    /\ \A i \in 1..Len(suf) : s[Len(s) - Len(suf) + i] = suf[i]

\* The values streamable_http_auth returns: True, False, or nothing (None).
AuthResults == {"True", "False", "None"}

\* `not auth_ok` taken as `auth_ok is False`.
FalsyOnlyFalse(v) == v = "False"

\* Python truth value, negated: `not auth_ok`.
Falsy(v) == v \in {"False", "None"}

\* The canonical path with a trailing slash.
CanonicalPathSlash == <<"/", "m", "c", "p", "/">>

CanonicalPath == <<"/", "m", "c", "p">>

\* The condition of line 90 without its `!= "/mcp/"` exclusion.
ShouldRewriteSlashNotExcluded(p) ==
    \/ (EndsWith(p, <<"/", "m", "c", "p">>) /\ p # <<"/", "m", "c", "p">>)
    \/ EndsWith(p, <<"/", "m", "c", "p", "/">>)

\* The condition of line 90 without its `!= "/mcp"` exclusion.
ShouldRewriteMcpNotExcluded(p) ==
    \/ EndsWith(p, <<"/", "m", "c", "p">>)
    \/ (EndsWith(p, <<"/", "m", "c", "p", "/">>) /\ p # <<"/", "m", "c", "p", "/">>)

\* The condition of line 90.
ShouldRewrite(p) ==
    \/ (EndsWith(p, <<"/", "m", "c", "p">>) /\ p # <<"/", "m", "c", "p">>)
    \/ (EndsWith(p, <<"/", "m", "c", "p", "/">>) /\ p # <<"/", "m", "c", "p", "/">>)

\* One context dictionary shared by every invocation.
UpdateScopeShared(sc, r, new) == [q \in DOMAIN sc |-> new]

\* The scope dict is the invocation's own object, mutated in place.
UpdateScope(sc, r, new) == [sc EXCEPT ![r] = new]

-----------------------------------------------------------------------------
(* The requests *)

Kinds == {"http", "websocket", "lifespan"}

HeaderValues == {<<>>, <<<<"accept", "json">>>>}

BaseScopes(paths) ==
    {[type |-> t, path |-> p] : t \in Kinds, p \in paths}
        \cup {[type |-> t] : t \in Kinds}

WithHeaders(S) == S \cup {Put(s, "headers", h) : s \in S, h \in HeaderValues}

Scopes(paths) == WithHeaders(BaseScopes(paths))

InitWith(R, S) ==
    /\ reqs = R
    /\ scope \in [R -> S]
    /\ received = scope
    /\ pc = [r \in R |-> "start"]
    /\ auth_ok = [r \in R |-> "unset"]
    /\ original_path = [r \in R |-> <<>>]
    /\ auth_args = [r \in R |-> <<>>]
    /\ session_args = [r \in R |-> <<>>]
    /\ app_args = [r \in R |-> <<>>]
    /\ log = [r \in R |-> <<>>]
    /\ prev = [r \in R |-> "none"]
    /\ error = [r \in R |-> "none"]

\* One request, any path.
Init == InitWith({1}, Scopes(PathSet))

\* The scopes of the requests that run concurrently.
ConcScopes ==
    {[type |-> "websocket", path |-> WsPath],
     [type |-> "http", path |-> ServersMcpPath],
     [type |-> "http", path |-> ABMcpSlashPath, headers |-> <<<<"accept", "json">>>>],
     [type |-> "http", path |-> McpPath],
     [type |-> "http", path |-> ToolsPath, headers |-> <<>>]}

\* Several requests in flight at once, each with its own scope.
InitConc == InitWith(1..NumRequests, ConcScopes)

-----------------------------------------------------------------------------
(* __call__, one action per stretch of code between two awaits *)

Returned == {"return_79", "return_86", "return_94", "end_95"}

Log(r, events) == [log EXCEPT ![r] = @ \o events]

\* Lines 77-84 with the rewrite of lines 88-92 moved in front of the auth call.
StartRewriteFirst(r) ==
    /\ pc[r] = "start"
    /\ IF scope[r]["type"] # "http"
       THEN /\ app_args' = [app_args EXCEPT ![r] = Append(@, scope[r])]
            /\ log' = Log(r, <<"app_call">>)
            /\ pc' = [pc EXCEPT ![r] = "await_app_78"]
            /\ UNCHANGED <<scope, auth_args, original_path>>
       ELSE LET sc1 == SetDefault(scope[r], "headers", <<>>)
                op == Get(sc1, "path", <<>>)
                sc2 == Put(sc1, "modified_path", op)
                sc3 == IF ShouldRewrite(op) THEN Put(sc2, "path", CanonicalPath) ELSE sc2
            IN /\ scope' = UpdateScope(scope, r, sc3)
               /\ original_path' = [original_path EXCEPT ![r] = op]
               /\ auth_args' = [auth_args EXCEPT ![r] = Append(@, sc3)]
               /\ log' = Log(r, <<"setdefault_headers", "path_read", "marker_write",
                                  "path_write", "auth_call">>)
               /\ pc' = [pc EXCEPT ![r] = "await_auth_84"]
               /\ UNCHANGED app_args
    /\ UNCHANGED <<reqs, received, auth_ok, session_args, prev, error>>

\* Lines 77-84 with scope.setdefault("headers", []) moved in front of the
\* type check.
StartDefaultsFirst(r) ==
    /\ pc[r] = "start"
    /\ LET sc1 == SetDefault(scope[r], "headers", <<>>)
       IN /\ scope' = UpdateScope(scope, r, sc1)
          /\ IF sc1["type"] # "http"
             THEN /\ app_args' = [app_args EXCEPT ![r] = Append(@, sc1)]
                  /\ log' = Log(r, <<"setdefault_headers", "app_call">>)
                  /\ pc' = [pc EXCEPT ![r] = "await_app_78"]
                  /\ UNCHANGED auth_args
             ELSE /\ auth_args' = [auth_args EXCEPT ![r] = Append(@, sc1)]
                  /\ log' = Log(r, <<"setdefault_headers", "auth_call">>)
                  /\ pc' = [pc EXCEPT ![r] = "await_auth_84"]
                  /\ UNCHANGED app_args
    /\ UNCHANGED <<reqs, received, auth_ok, original_path, session_args, prev,
                   error>>

\* Lines 77-84: entry of __call__ up to the first await.
Start(r) ==
    /\ pc[r] = "start"
    /\ IF scope[r]["type"] # "http"
       THEN /\ app_args' = [app_args EXCEPT ![r] = Append(@, scope[r])]
            /\ log' = Log(r, <<"app_call">>)
            /\ pc' = [pc EXCEPT ![r] = "await_app_78"]
            /\ UNCHANGED <<scope, auth_args>>
       ELSE LET sc1 == SetDefault(scope[r], "headers", <<>>)
            IN /\ scope' = UpdateScope(scope, r, sc1)
               /\ auth_args' = [auth_args EXCEPT ![r] = Append(@, sc1)]
               /\ log' = Log(r, <<"setdefault_headers", "auth_call">>)
               /\ pc' = [pc EXCEPT ![r] = "await_auth_84"]
               /\ UNCHANGED app_args
    /\ UNCHANGED <<reqs, received, auth_ok, original_path, session_args, prev,
                   error>>

\* Lines 84-95: streamable_http_auth returns v; the code runs to the next
\* await (line 93 or line 95) or to the return of line 86.
AuthReturn(r, v) ==
    /\ pc[r] = "await_auth_84"
    /\ auth_ok' = [auth_ok EXCEPT ![r] = v]
    /\ IF Falsy(v)
       THEN /\ pc' = [pc EXCEPT ![r] = "return_86"]
            /\ log' = Log(r, <<"auth_return">>)
            /\ UNCHANGED <<scope, original_path, session_args, app_args>>
       ELSE LET op == Get(scope[r], "path", <<>>)
                sc1 == Put(scope[r], "modified_path", op)
                sc2 == Put(sc1, "path", CanonicalPath)
            IN /\ original_path' = [original_path EXCEPT ![r] = op]
               /\ IF ShouldRewrite(op)
                  THEN /\ scope' = UpdateScope(scope, r, sc2)
                       /\ session_args' = [session_args EXCEPT ![r] = Append(@, sc2)]
                       /\ log' = Log(r, <<"auth_return", "path_read", "marker_write",
                                          "path_write", "session_call">>)
                       /\ pc' = [pc EXCEPT ![r] = "await_session_93"]
                       /\ UNCHANGED app_args
                  ELSE /\ scope' = UpdateScope(scope, r, sc1)
                       /\ app_args' = [app_args EXCEPT ![r] = Append(@, sc1)]
                       /\ log' = Log(r, <<"auth_return", "path_read", "marker_write",
                                          "app_call">>)
                       /\ pc' = [pc EXCEPT ![r] = "await_app_95"]
                       /\ UNCHANGED session_args
    /\ UNCHANGED <<reqs, received, auth_args, prev, error>>

\* Line 84 wrapped in try/except with self.application as the fallback.
AuthRaiseFallback(r) ==
    /\ pc[r] = "await_auth_84"
    /\ app_args' = [app_args EXCEPT ![r] = Append(@, scope[r])]
    /\ log' = Log(r, <<"auth_raise", "app_call">>)
    /\ pc' = [pc EXCEPT ![r] = "await_app_95"]
    /\ UNCHANGED <<reqs, scope, received, auth_ok, original_path, auth_args,
                   session_args, prev, error>>

\* Line 84: streamable_http_auth raises; nothing catches it.
AuthRaise(r) ==
    /\ pc[r] = "await_auth_84"
    /\ pc' = [pc EXCEPT ![r] = "raised"]
    /\ error' = [error EXCEPT ![r] = "auth"]
    /\ log' = Log(r, <<"auth_raise">>)
    /\ UNCHANGED <<reqs, scope, received, auth_ok, original_path, auth_args,
                   session_args, app_args, prev>>

\* Lines 93-94: handle_streamable_http returns.
SessionReturn(r) ==
    /\ pc[r] = "await_session_93"
    /\ pc' = [pc EXCEPT ![r] = "return_94"]
    /\ log' = Log(r, <<"session_return">>)
    /\ UNCHANGED <<reqs, scope, received, auth_ok, original_path, auth_args,
                   session_args, app_args, prev, error>>

\* Line 93: handle_streamable_http raises; nothing catches it.
SessionRaise(r) ==
    /\ pc[r] = "await_session_93"
    /\ pc' = [pc EXCEPT ![r] = "raised"]
    /\ error' = [error EXCEPT ![r] = "session"]
    /\ log' = Log(r, <<"session_raise">>)
    /\ UNCHANGED <<reqs, scope, received, auth_ok, original_path, auth_args,
                   session_args, app_args, prev>>

\* Lines 78-79 and line 95: self.application returns.
AppReturn(r) ==
    /\ pc[r] \in {"await_app_78", "await_app_95"}
    /\ pc' = [pc EXCEPT ![r] = IF pc[r] = "await_app_78" THEN "return_79" ELSE "end_95"]
    /\ log' = Log(r, <<"app_return">>)
    /\ UNCHANGED <<reqs, scope, received, auth_ok, original_path, auth_args,
                   session_args, app_args, prev, error>>

\* Line 78 or line 95: self.application raises; nothing catches it.
AppRaise(r) ==
    /\ pc[r] \in {"await_app_78", "await_app_95"}
    /\ pc' = [pc EXCEPT ![r] = "raised"]
    /\ error' = [error EXCEPT ![r] = "app"]
    /\ log' = Log(r, <<"app_raise">>)
    /\ UNCHANGED <<reqs, scope, received, auth_ok, original_path, auth_args,
                   session_args, app_args, prev>>

\* __call__ is entered again with the scope dict a finished run left behind.
Reinvoke(r) ==
    /\ pc[r] \in Returned
    /\ prev' = [prev EXCEPT ![r] = pc[r]]
    /\ received' = [received EXCEPT ![r] = scope[r]]
    /\ pc' = [pc EXCEPT ![r] = "start"]
    /\ auth_ok' = [auth_ok EXCEPT ![r] = "unset"]
    /\ original_path' = [original_path EXCEPT ![r] = <<>>]
    /\ auth_args' = [auth_args EXCEPT ![r] = <<>>]
    /\ session_args' = [session_args EXCEPT ![r] = <<>>]
    /\ app_args' = [app_args EXCEPT ![r] = <<>>]
    /\ log' = [log EXCEPT ![r] = <<>>]
    /\ UNCHANGED <<reqs, scope, error>>

Next ==
    \/ \E r \in reqs : Start(r)
    \/ \E r \in reqs, v \in AuthResults : AuthReturn(r, v)
    \/ \E r \in reqs : AuthRaise(r)
    \/ \E r \in reqs : SessionReturn(r)
    \/ \E r \in reqs : SessionRaise(r)
    \/ \E r \in reqs : AppReturn(r)
    \/ \E r \in reqs : AppRaise(r)
    \/ \E r \in reqs : Reinvoke(r)

Spec == Init /\ [][Next]_vars

NextConc ==
    \/ \E r \in reqs : Start(r)
    \/ \E r \in reqs, v \in AuthResults : AuthReturn(r, v)
    \/ \E r \in reqs : AuthRaise(r)
    \/ \E r \in reqs : SessionReturn(r)
    \/ \E r \in reqs : SessionRaise(r)
    \/ \E r \in reqs : AppReturn(r)
    \/ \E r \in reqs : AppRaise(r)

SpecConc == InitConc /\ [][NextConc]_vars

-----------------------------------------------------------------------------
(* Vocabulary of the properties *)

HasSuffix(p, suf) ==
    /\ Len(p) >= Len(suf)
    /\ SubSeq(p, Len(p) - Len(suf) + 1, Len(p)) = suf

\* The rewrite predicate as the specification words it.
RewritePredicate(p) ==
    /\ HasSuffix(p, <<"/", "m", "c", "p">>) \/ HasSuffix(p, <<"/", "m", "c", "p", "/">>)
    /\ p # <<"/", "m", "c", "p">>
    /\ p # <<"/", "m", "c", "p", "/">>

IsHttp(r) == received[r]["type"] = "http"

ReceivedPath(r) == Get(received[r], "path", <<>>)

SamePath(a, b) ==
    /\ ("path" \in DOMAIN a) <=> ("path" \in DOMAIN b)
    /\ Get(a, "path", <<>>) = Get(b, "path", <<>>)

AuthTruthy(r) == auth_ok[r] = "True"

AuthFalsy(r) == auth_ok[r] \in {"False", "None"}

Count(s, e) == Cardinality({i \in 1..Len(s) : s[i] = e})

PathEvents == {"path_read", "marker_write", "path_write"}

\* C1: an HTTP request on which auth returned a falsy value has returned at
\* line 86 without a call of the session handler or of the application, and
\* its path is as received, whatever the path is.
C1_AuthFalsyHalts ==
    \A r \in reqs :
        (IsHttp(r) /\ AuthFalsy(r)) =>
            /\ pc[r] = "return_86"
            /\ session_args[r] = <<>>
            /\ app_args[r] = <<>>
            /\ SamePath(scope[r], received[r])
            /\ \A i \in 1..Len(log[r]) : log[r][i] \notin PathEvents

C1_Witness ==
    \E r \in reqs :
        /\ IsHttp(r)
        /\ auth_ok[r] = "None"
        /\ ReceivedPath(r) = ServersMcpPath
        /\ pc[r] = "return_86"

\* C2: an HTTP request calls auth exactly once, and every read or write of
\* the path, every call of the session handler and every call of the
\* application comes after auth has returned a truthy value.
C2_AuthOnceAndFirst ==
    \A r \in reqs :
        IsHttp(r) =>
            /\ pc[r] # "start" =>
                   (Len(auth_args[r]) = 1 /\ Count(log[r], "auth_call") = 1)
            /\ \A i \in 1..Len(log[r]) :
                   log[r][i] \in PathEvents \cup {"session_call", "app_call"} =>
                       /\ AuthTruthy(r)
                       /\ \E j \in 1..(i - 1) : log[r][j] = "auth_return"
            /\ (session_args[r] # <<>> \/ app_args[r] # <<>>) => AuthTruthy(r)

C2_Witness ==
    \E r \in reqs :
        /\ IsHttp(r)
        /\ ReceivedPath(r) = ABMcpSlashPath
        /\ pc[r] = "return_94"
        /\ Len(auth_args[r]) = 1

\* C3: a request whose type is not http is handed to the application exactly
\* once, as received; auth and the session handler are not called, and the
\* scope (headers and path included) is neither read for rewriting nor changed.
C3_NonHttpPassthrough ==
    \A r \in reqs :
        (~IsHttp(r) /\ pc[r] # "start") =>
            /\ app_args[r] = <<received[r]>>
            /\ scope[r] = received[r]
            /\ auth_args[r] = <<>>
            /\ session_args[r] = <<>>
            /\ \A i \in 1..Len(log[r]) :
                   log[r][i] \in {"app_call", "app_return", "app_raise"}

C3_Witness ==
    \E r \in reqs :
        /\ received[r]["type"] = "websocket"
        /\ ReceivedPath(r) = WsPath
        /\ "headers" \notin DOMAIN received[r]
        /\ pc[r] = "return_79"

\* C4: an HTTP request with a truthy auth outcome whose path matches the
\* rewrite predicate is dispatched to the session handler exactly once, with
\* the mutated scope: path "/mcp" and modified_path the path received; the
\* application is not called.
C4_MatchRewritesAndDispatches ==
    \A r \in reqs :
        (IsHttp(r) /\ AuthTruthy(r) /\ RewritePredicate(ReceivedPath(r))) =>
            /\ Len(session_args[r]) = 1
            /\ session_args[r][1] = scope[r]
            /\ session_args[r][1]["path"] = <<"/", "m", "c", "p">>
            /\ session_args[r][1]["modified_path"] = ReceivedPath(r)
            /\ app_args[r] = <<>>

C4_Witness ==
    \E r \in reqs :
        /\ IsHttp(r)
        /\ AuthTruthy(r)
        /\ ReceivedPath(r) = ServersMcpPath
        /\ pc[r] = "return_94"

\* C5: an HTTP request with a truthy auth outcome whose path does not match
\* the rewrite predicate (or is absent) is handed to the application exactly
\* once, with the path it was received with; the session handler is not called.
C5_NoMatchForwards ==
    \A r \in reqs :
        (IsHttp(r) /\ AuthTruthy(r) /\ ~RewritePredicate(ReceivedPath(r))) =>
            /\ Len(app_args[r]) = 1
            /\ session_args[r] = <<>>
            /\ SamePath(app_args[r][1], received[r])
            /\ SamePath(scope[r], received[r])

C5_Witness ==
    \E r \in reqs :
        /\ IsHttp(r)
        /\ AuthTruthy(r)
        /\ ReceivedPath(r) = McpSlashPath
        /\ pc[r] = "end_95"

C7_NoMatchForwardsUnmutated ==
    \A r \in reqs :
        (IsHttp(r) /\ AuthTruthy(r) /\ ~RewritePredicate(ReceivedPath(r))
            /\ app_args[r] # <<>>) =>
            app_args[r][1] = SetDefault(received[r], "headers", <<>>)

\* C8: when __call__ runs again on a scope that its previous run rewrote, and
\* auth is truthy, the session handler is not called and the application
\* receives the scope with path "/mcp"; the path a rewrite produces never
\* satisfies the rewrite condition.
C8_RewriteIdempotent ==
    \A r \in reqs :
        /\ (prev[r] = "return_94" /\ AuthTruthy(r)) =>
               /\ session_args[r] = <<>>
               /\ Len(app_args[r]) = 1
               /\ app_args[r][1]["path"] = <<"/", "m", "c", "p">>
               /\ scope[r]["path"] = <<"/", "m", "c", "p">>
               /\ Count(log[r], "path_write") = 0
        /\ session_args[r] # <<>> => ~RewritePredicate(session_args[r][1]["path"])

C8_Witness ==
    \E r \in reqs :
        /\ prev[r] = "return_94"
        /\ AuthTruthy(r)
        /\ pc[r] = "end_95"

\* C9: an exception of auth or of the session handler ends the invocation:
\* nothing runs after it, no other collaborator is called as a fallback, the
\* path is not changed after an auth failure, and no collaborator is called
\* twice.
C9_FailuresPropagate ==
    \A r \in reqs :
        /\ \A i \in 1..Len(log[r]) :
               log[r][i] \in {"auth_raise", "session_raise", "app_raise"} =>
                   (i = Len(log[r]) /\ pc[r] = "raised")
        /\ Count(log[r], "auth_raise") > 0 =>
               /\ error[r] = "auth"
               /\ session_args[r] = <<>>
               /\ app_args[r] = <<>>
               /\ SamePath(scope[r], received[r])
        /\ Count(log[r], "session_raise") > 0 =>
               /\ error[r] = "session"
               /\ app_args[r] = <<>>
        /\ Len(auth_args[r]) <= 1
        /\ Len(session_args[r]) <= 1
        /\ Len(app_args[r]) <= 1

C9_Witness ==
    \E r \in reqs :
        /\ error[r] = "session"
        /\ pc[r] = "raised"
        /\ ReceivedPath(r) = ServersMcpPath

\* What one invocation running alone does with scope sc when auth returns a.
AloneReturn(sc, a) ==
    IF sc["type"] # "http" THEN "return_79"
    ELSE IF a \in {"False", "None"} THEN "return_86"
    ELSE IF RewritePredicate(Get(sc, "path", <<>>)) THEN "return_94"
    ELSE "end_95"

AloneScope(sc, a) ==
    LET h == IF "headers" \in DOMAIN sc THEN sc ELSE sc @@ ("headers" :> <<>>)
        m == ("modified_path" :> Get(sc, "path", <<>>)) @@ h
    IN IF sc["type"] # "http" THEN sc
       ELSE IF a \in {"False", "None"} THEN h
       ELSE IF RewritePredicate(Get(sc, "path", <<>>))
            THEN ("path" :> <<"/", "m", "c", "p">>) @@ m
       ELSE m

\* C10: with several invocations interleaving at their awaits, each one that
\* returns does so at the return statement, and with the scope, that its own
\* type, path and auth outcome give when it runs alone; it has called at most
\* one of the session handler and the application, at most once.
C10_RequestsIsolated ==
    \A r \in reqs :
        /\ Len(session_args[r]) + Len(app_args[r]) <= 1
        /\ pc[r] \in Returned =>
               /\ pc[r] = AloneReturn(received[r], auth_ok[r])
               /\ scope[r] = AloneScope(received[r], auth_ok[r])
               /\ pc[r] \in {"return_79", "end_95"} =>
                      (Len(app_args[r]) = 1 /\ session_args[r] = <<>>)
               /\ pc[r] = "return_94" =>
                      (Len(session_args[r]) = 1 /\ app_args[r] = <<>>)
               /\ pc[r] = "return_86" =>
                      (session_args[r] = <<>> /\ app_args[r] = <<>>)

C10_Witness ==
    \E r, q \in reqs :
        /\ r # q
        /\ received[r] = received[q]
        /\ ReceivedPath(r) = ServersMcpPath
        /\ pc[r] = "return_94"
        /\ pc[q] = "return_86"

====
